---- MODULE Spec2Model ----
(***************************************************************************)
(* Trivia API backend (backend/flaskr/__init__.py): the request handlers   *)
(* of create_app and the helpers they call, over a store of Question and   *)
(* Category records.                                                       *)
(*                                                                         *)
(* Text (a Python str) is a sequence of one-character strings, so that     *)
(* lower(), substring search, str() and int() are computed, not assumed.   *)
(* One request is handled at a time; a handler is one action, except       *)
(* generate_quiz, whose reject-and-resample loop takes one step per draw.  *)
(***************************************************************************)
EXTENDS Integers, Sequences, FiniteSets, TLC

VARIABLES
    questions,           \* the Question table, in the store's enumeration order
    categories,          \* the Category table, in the store's enumeration order
    next_id,             \* the id the store assigns to the next inserted question
    request,             \* the request being handled, or the last one handled
    response,            \* the response to it; NoResponse while generate_quiz loops
    pc,                  \* "idle", or "while" inside generate_quiz's loop
    category_questions,  \* generate_quiz's local: the pool it queried
    random_id,           \* generate_quiz's local: the last draw, 1-based
    session              \* the quiz caller's state, kept across its requests

vars == <<questions, categories, next_id, request, response, pc,
          category_questions, random_id, session>>

(***************************************************************************)
(* Bounds of the model.                                                    *)
(***************************************************************************)
\* questions in the store at start, at most
MaxSeed == 2

\* questions inserted by POST /questions, at most
MaxCreate == 1

\* length of a request's previous_questions, at most
MaxPrev == 2

\* questions in the store of a quiz session, at most
MaxPool == 3

\* questions in the store of the listing specification
MaxListed == 21

\* largest page number requested
MaxPage == 4

QUESTIONS_PER_PAGE == 10

(***************************************************************************)
(* Python values.                                                          *)
(***************************************************************************)
Range(s) == {s[i] : i \in 1..Len(s)}

Min(a, b) == IF a < b THEN a ELSE b

Max(a, b) == IF a > b THEN a ELSE b

\* str.lower(), one character
LowerChar(c) ==
    CASE c = "Q" -> "q"
      [] c = "A" -> "a"
      [] c = "W" -> "w"
      [] OTHER -> c

\* str.lower()
Lower(s) == [i \in 1..Len(s) |-> LowerChar(s[i])]

\* `t in s` for two str: t is a substring of s
Contains(s, t) ==
    \E i \in 0..(Len(s) - Len(t)) : SubSeq(s, i + 1, i + Len(t)) = t

DigitChars == <<"0", "1", "2", "3", "4", "5", "6", "7", "8", "9">>

DigitValue(c) == CHOOSE d \in 0..9 : DigitChars[d + 1] = c

\* str(n) for an int n >= 0
RECURSIVE Str(_)
Str(n) ==
    IF n < 10 THEN <<DigitChars[n + 1]>>
    ELSE Str(n \div 10) \o <<DigitChars[(n % 10) + 1]>>

\* int(s) for a str of decimal digits
RECURSIVE Int_(_)
Int_(s) ==
    IF Len(s) = 1 THEN DigitValue(s[1])
    ELSE 10 * Int_(SubSeq(s, 1, Len(s) - 1)) + DigitValue(s[Len(s)])

\* items[start:end], Python's slice of a list (negative indices count from
\* the end, both are clamped to the list)
Slice(items, start, end) ==
    LET n == Len(items)
        lo == IF start < 0 THEN Max(start + n, 0) ELSE Min(start, n)
        hi == IF end < 0 THEN Max(end + n, 0) ELSE Min(end, n)
    IN  IF lo < hi THEN SubSeq(items, lo + 1, hi) ELSE <<>>

\* CeilTenth with the quotient rounded down
CeilTenth_Floor(n) == n \div 10

\* math.ceil(n / 10.0) for an int n >= 0
CeilTenth(n) == IF n % 10 = 0 THEN n \div 10 ELSE (n \div 10) + 1

(***************************************************************************)
(* The store (models.py: Question, Category).                              *)
(***************************************************************************)
\* Question.format(): the five fields, category as a string
Format(q) ==
    [id |-> q.id, question |-> q.question, answer |-> q.answer,
     difficulty |-> q.difficulty, category |-> Str(q.category)]

\* Question.query.all()
QueryAll == questions

\* Question.query.filter_by(category=c).all(), c a str
QueryByCategory(store, c) == SelectSeq(store, LAMBDA q : Str(q.category) = c)

\* Question.insert(): the store assigns the id and appends the record
Insert(store, id, question, answer, difficulty, category) ==
    Append(store, [id |-> id, question |-> question, answer |-> answer,
                   difficulty |-> difficulty, category |-> category])

\* Question.delete()
Delete(store, id) == SelectSeq(store, LAMBDA q : q.id # id)

(***************************************************************************)
(* Data the requests and the initial store are drawn from: the fixtures of *)
(* test_flaskr.py.                                                         *)
(***************************************************************************)
Q1 == <<"Q", "1", "?">>

Q2 == <<"q", "2", "?">>

WQ1 == <<"W", "Q", "1">>

A1 == <<"A", "1">>

SeedTexts == <<Q1, Q2, WQ1>>

\* the i-th question of the store at start: categories alternate 1, 2
SeedQuestion(i) ==
    [id |-> i, question |-> SeedTexts[((i - 1) % 3) + 1], answer |-> A1,
     difficulty |-> 1, category |-> 2 - (i % 2)]

SeedStore(n) == [i \in 1..n |-> SeedQuestion(i)]

SeedCategories == <<[id |-> 1, type |-> "science"], [id |-> 2, type |-> "art"]>>

NoRequest == [method |-> "none"]

\* request.get_json(): None when the request carries no JSON body, else the
\* object sent; keys is the set of its keys
None == [present |-> FALSE, keys |-> {}]

JsonObject(keys) == [present |-> TRUE, keys |-> keys]

\* a JSON value that may be null
JsonNull == [null |-> TRUE]

JsonStr(text) == [null |-> FALSE, str |-> text]

\* bool(body): None and the empty object are false
Truthy(body) == body.present /\ body.keys # {}

\* request.args.get('page', 1, type=int)
PageArg(req) == IF req.args.has_page THEN req.args.page ELSE 1

NoResponse == [status |-> 0, kind |-> "none"]

\* Flask's answer to an exception no handler catches
ServerError == [status |-> 500, kind |-> "error"]

\* abort(status): the errorhandler's envelope
Abort(status) ==
    [status |-> status, kind |-> "error", success |-> FALSE, error |-> status,
     message |-> CASE status = 404 -> "resource not found"
                   [] status = 405 -> "method not allowed"
                   [] status = 422 -> "unprocessable, form data might be missing"
                   [] status = 400 -> "bad request"]

NoSession == [quiz_category |-> [type |-> "click", id |-> <<"0">>],
              previous_questions |-> <<>>, awaiting |-> FALSE]

(***************************************************************************)
(* paginate_questions, list_current_categories, list_all_categories        *)
(***************************************************************************)
\* paginate_questions with the page taken as a 0-based index
paginate_questions_PageIsIndex(req, selection) ==
    LET page == PageArg(req)
        start == page * QUESTIONS_PER_PAGE
        end == start + QUESTIONS_PER_PAGE
        formatted == [i \in 1..Len(selection) |-> Format(selection[i])]
    IN  Slice(formatted, start, end)

paginate_questions(req, selection) ==
    LET page == PageArg(req)
        start == (page - 1) * QUESTIONS_PER_PAGE
        end == start + QUESTIONS_PER_PAGE
        formatted == [i \in 1..Len(selection) |-> Format(selection[i])]
    IN  Slice(formatted, start, end)

RECURSIVE list_current_categories(_)
list_current_categories(qs) ==
    IF qs = <<>> THEN <<>>
    ELSE LET rest == list_current_categories(SubSeq(qs, 1, Len(qs) - 1))
             c == qs[Len(qs)].category
         IN  IF c \in Range(rest) THEN rest ELSE Append(rest, c)

list_all_categories(cats) == [i \in 1..Len(cats) |-> cats[i].type]

(***************************************************************************)
(* POST /quizzes: generate_quiz                                            *)
(***************************************************************************)
\* previous_questions of a request: the handler reads it through len() and
\* `in` alone, so the lists are enumerated up to order (non-decreasing);
\* ids outside the store and repeated ids are included
PrevIds == 1..(MaxSeed + 1)

PreviousQuestionsLists ==
    {p \in UNION {[1..n -> PrevIds] : n \in 0..MaxPrev} :
        \A i \in 1..(Len(p) - 1) : p[i] <= p[i + 1]}

QuizCategories ==
    {[type |-> t, id |-> i] : t \in {"click", "Science"},
                              i \in {<<"0">>, <<"1">>}}

QuizBodies ==
    {[previous_questions |-> p, quiz_category |-> c] :
        p \in PreviousQuestionsLists, c \in QuizCategories}

\* QuizPool without the + 1 of line 205
QuizPool_NoOffset(store, body) ==
    LET category == Int_(body.quiz_category.id)
    IN  IF body.quiz_category.type = "click" THEN store
        ELSE QueryByCategory(store, Str(category))

\* lines 205-212: the pool the quiz draws from
QuizPool(store, body) ==
    LET category == Int_(body.quiz_category.id) + 1
    IN  IF body.quiz_category.type = "click" THEN store
        ELSE QueryByCategory(store, Str(category))

\* lines 230-238
QuizPlaceholder ==
    [status |-> 200, kind |-> "quiz_end", success |-> TRUE,
     current_question |-> [id |-> <<>>, question |-> <<>>, answer |-> <<>>]]

\* lines 219-229
QuizQuestion(body, new_question) ==
    [status |-> 200, kind |-> "quiz", success |-> TRUE,
     previous_questions |-> body.previous_questions,
     current_question |-> [id |-> new_question.id,
                           question |-> new_question.question,
                           answer |-> new_question.answer]]

\* line 215: the branch that draws a question
QuizDraws(pool, previous_questions) == Len(pool) # Len(previous_questions)

\* QuizRejects with the loop never entered
QuizRejects_Never(pool, r, previous_questions) == FALSE

\* line 216: the loop's condition
QuizRejects(pool, r, previous_questions) ==
    pool[r].id \in Range(previous_questions)

\* lines 203-215 and 230-238: up to the loop, or the whole request when the
\* loop is not entered. random.randint(1, 0) raises ValueError on an empty pool.
generate_quiz_begin(body) ==
    /\ pc = "idle"
    /\ response = NoResponse
    /\ request' = [method |-> "POST", path |-> "/quizzes", body |-> body]
    /\ LET pool == QuizPool(QueryAll, body)
       IN  IF Len(pool) = 0
           THEN /\ response' = ServerError
                /\ UNCHANGED <<pc, category_questions, random_id>>
           ELSE \E r \in 1..Len(pool) :
                  IF QuizDraws(pool, body.previous_questions)
                  THEN /\ pc' = "while"
                       /\ category_questions' = pool
                       /\ random_id' = r
                       /\ response' = NoResponse
                  ELSE /\ response' = QuizPlaceholder
                       /\ UNCHANGED <<pc, category_questions, random_id>>
    /\ UNCHANGED <<questions, categories, next_id>>

\* lines 216-217: the drawn question was served before, draw again
generate_quiz_resample ==
    /\ pc = "while"
    /\ QuizRejects(category_questions, random_id, request.body.previous_questions)
    /\ \E r \in 1..Len(category_questions) : random_id' = r
    /\ UNCHANGED <<questions, categories, next_id, request, response, pc,
                   category_questions, session>>

\* lines 219-229: the drawn question was not served before, return it
generate_quiz_return ==
    /\ pc = "while"
    /\ ~QuizRejects(category_questions, random_id, request.body.previous_questions)
    /\ response' = QuizQuestion(request.body, category_questions[random_id])
    /\ pc' = "idle"
    /\ category_questions' = <<>>
    /\ random_id' = 0
    /\ UNCHANGED <<questions, categories, next_id, request, session>>

\* a POST /quizzes with any body
generate_quiz ==
    /\ \E body \in QuizBodies : generate_quiz_begin(body)
    /\ UNCHANGED session

(***************************************************************************)
(* The quiz caller: it keeps previous_questions across its requests and    *)
(* appends each id it is served.                                           *)
(***************************************************************************)
SessionAdvance ==
    /\ ~session.awaiting
    /\ generate_quiz_begin([previous_questions |-> session.previous_questions,
                            quiz_category |-> session.quiz_category])
    /\ session' = [session EXCEPT !.awaiting = TRUE]

SessionReceive ==
    /\ session.awaiting
    /\ pc = "idle"
    /\ response # NoResponse
    /\ session' = [session EXCEPT
           !.awaiting = FALSE,
           !.previous_questions =
               IF response.kind = "quiz"
               THEN Append(@, response.current_question.id) ELSE @]
    /\ request' = NoRequest
    /\ response' = NoResponse
    /\ UNCHANGED <<questions, categories, next_id, pc, category_questions,
                   random_id>>

(***************************************************************************)
(* GET /categories: get_categories                                         *)
(***************************************************************************)
get_categories ==
    /\ pc = "idle"
    /\ response = NoResponse
    /\ request' = [method |-> "GET", path |-> "/categories"]
    /\ response' = [status |-> 200, kind |-> "categories", success |-> TRUE,
                    categories |-> list_all_categories(categories)]
    /\ UNCHANGED <<questions, categories, next_id, pc, category_questions,
                   random_id, session>>

(***************************************************************************)
(* GET /questions: get_questions                                           *)
(***************************************************************************)
PageArgs ==
    {[has_page |-> FALSE, page |-> 1]}
        \cup {[has_page |-> TRUE, page |-> p] : p \in (-1)..MaxPage}

\* no body, the empty object, and the object of test_get_all_questions_fail
GetBodies == {None, JsonObject({}), JsonObject({"type"})}

\* lines 95-105, shared with lines 186-196
Listing(req, selection) ==
    LET current_questions == paginate_questions(req, selection)
    IN  [status |-> 200, kind |-> "questions", success |-> TRUE,
         questions |-> current_questions,
         total_questions |-> Len(selection),
         categories |-> list_all_categories(categories),
         current_category |-> list_current_categories(current_questions)]

\* lines 85-105
GetQuestionsResponse(req, selection) ==
    IF PageArg(req) > CeilTenth(Len(selection)) THEN Abort(404)
    ELSE IF Truthy(req.body) THEN Abort(400)
    ELSE Listing(req, selection)

get_questions ==
    /\ pc = "idle"
    /\ response = NoResponse
    /\ \E args \in PageArgs, body \in GetBodies :
         /\ request' = [method |-> "GET", path |-> "/questions",
                        args |-> args, body |-> body]
         /\ response' = GetQuestionsResponse(request', QueryAll)
    /\ UNCHANGED <<questions, categories, next_id, pc, category_questions,
                   random_id, session>>

(***************************************************************************)
(* DELETE /questions/<question_id>: delete_question                        *)
(***************************************************************************)
\* QueryById without the filter: first() of every question
QueryById_Unfiltered(store, question_id) == store

\* Question.query.filter_by(id=question_id).first(), question_id a str
QueryById(store, question_id) ==
    SelectSeq(store, LAMBDA q : q.id = Int_(question_id))

delete_question ==
    /\ pc = "idle"
    /\ response = NoResponse
    /\ \E i \in 1..(MaxSeed + MaxCreate + 1) :
         LET question_id == Str(i)
             found == QueryById(QueryAll, question_id)
         IN  /\ request' = [method |-> "DELETE", path |-> "/questions",
                            question_id |-> question_id]
             /\ IF found = <<>>
                THEN /\ response' = Abort(404)
                     /\ UNCHANGED questions
                ELSE /\ questions' = Delete(questions, found[1].id)
                     /\ response' = [status |-> 200, kind |-> "deleted",
                                     success |-> TRUE,
                                     message |-> "question deleted"]
    /\ UNCHANGED <<categories, next_id, pc, category_questions, random_id,
                   session>>

(***************************************************************************)
(* POST /questions: post_question                                          *)
(***************************************************************************)
Q4 == <<"Q", "4", "?">>

SearchTerms == {<<>>, <<"q", "1">>, <<"Q">>, <<"?">>, <<"z">>, Q4}

CreateKeys == {"question", "answer", "difficulty", "category"}

\* the bodies sent: a search (the term a string or null), a create (either
\* text may be empty, the category may match no Category record), a create
\* that also carries searchTerm: null, and the empty object
PostBodies ==
    LET fields == {[question |-> q, answer |-> a, difficulty |-> 1,
                    category |-> c, searchTerm |-> JsonNull] :
                       q \in {<<>>, Q4}, a \in {<<>>, A1}, c \in {1, 4}}
        blank == [question |-> <<>>, answer |-> <<>>, difficulty |-> 1,
                  category |-> 1, searchTerm |-> JsonNull]
    IN  {[body |-> [blank EXCEPT !.searchTerm = t], keys |-> {"searchTerm"}] :
            t \in {JsonNull} \cup {JsonStr(x) : x \in SearchTerms}}
        \cup {[body |-> f, keys |-> CreateKeys] : f \in fields}
        \cup {[body |-> f, keys |-> CreateKeys \cup {"searchTerm"}] : f \in fields}
        \cup {[body |-> blank, keys |-> {}]}

\* Search without lower() on the term
Search_CaseSensitive(store, search_term) ==
    LET filtered_questions ==
            SelectSeq(store, LAMBDA q : Contains(Lower(q.question), search_term))
        questions_formatted ==
            [i \in 1..Len(filtered_questions) |-> Format(filtered_questions[i])]
    IN  [status |-> 200, kind |-> "search", success |-> TRUE,
         questions |-> questions_formatted,
         total_questions |-> Len(questions_formatted),
         current_category |->
             [i \in 1..Len(questions_formatted) |->
                 questions_formatted[i].category]]

\* lines 130-148
Search(store, search_term) ==
    LET filtered_questions ==
            SelectSeq(store, LAMBDA q :
                Contains(Lower(q.question), Lower(search_term)))
        questions_formatted ==
            [i \in 1..Len(filtered_questions) |-> Format(filtered_questions[i])]
    IN  [status |-> 200, kind |-> "search", success |-> TRUE,
         questions |-> questions_formatted,
         total_questions |-> Len(questions_formatted),
         current_category |->
             [i \in 1..Len(questions_formatted) |->
                 questions_formatted[i].category]]

\* lines 166-175: Category.query.filter_by(id=category_id).first() is None
\* when no category has the id, and None has no attribute type
NewEntry(body) ==
    LET found == SelectSeq(categories, LAMBDA c : c.id = body.category)
    IN  IF found = <<>> THEN ServerError
        ELSE [status |-> 200, kind |-> "new_entry", success |-> TRUE,
              new_entry |-> [question |-> body.question,
                             answer |-> body.answer,
                             difficulty |-> body.difficulty,
                             category |-> found[1].type]]

\* line 128
IsSearch(b) == "searchTerm" \in b.keys /\ ~b.body.searchTerm.null

\* line 149
IsNullSearch(b) == "searchTerm" \in b.keys /\ b.body.searchTerm.null

\* CreateRejected with `and` for `or`
CreateRejected_Both(body) == body.question = <<>> /\ body.answer = <<>>

\* line 157
CreateRejected(body) == body.question = <<>> \/ body.answer = <<>>

post_question ==
    /\ pc = "idle"
    /\ response = NoResponse
    /\ \E b \in PostBodies :
         /\ request' = [method |-> "POST", path |-> "/questions", json |-> b]
         /\ IF IsSearch(b)
            THEN /\ response' = Search(QueryAll, b.body.searchTerm.str)
                 /\ UNCHANGED <<questions, next_id>>
            ELSE IF IsNullSearch(b)
            THEN /\ response' = Abort(400)
                 /\ UNCHANGED <<questions, next_id>>
            ELSE IF ~(CreateKeys \subseteq b.keys)
            THEN \* body['question'] raises KeyError
                 /\ response' = ServerError
                 /\ UNCHANGED <<questions, next_id>>
            ELSE IF CreateRejected(b.body)
            THEN /\ response' = Abort(422)
                 /\ UNCHANGED <<questions, next_id>>
            ELSE /\ next_id < MaxSeed + MaxCreate + 1
                 /\ questions' = Insert(questions, next_id, b.body.question,
                                        b.body.answer, b.body.difficulty,
                                        b.body.category)
                 /\ next_id' = next_id + 1
                 /\ response' = NewEntry(b.body)
    /\ UNCHANGED <<categories, pc, category_questions, random_id, session>>

(***************************************************************************)
(* GET /categories/<category_id>/questions: get_questions_by_category      *)
(***************************************************************************)
get_questions_by_category ==
    /\ pc = "idle"
    /\ response = NoResponse
    /\ \E args \in PageArgs, i \in 1..3 :
         LET category_id == Str(i)
             category == SelectSeq(categories, LAMBDA c : c.id = Int_(category_id))
             selection == QueryByCategory(QueryAll, category_id)
         IN  /\ request' = [method |-> "GET", path |-> "/categories/questions",
                            category_id |-> category_id, args |-> args]
             /\ response' = IF category = <<>> THEN Abort(404)
                            ELSE Listing(request', selection)
    /\ UNCHANGED <<questions, categories, next_id, pc, category_questions,
                   random_id, session>>

(***************************************************************************)
(* The client reads the response; the next request is sent after that.     *)
(***************************************************************************)
Receive ==
    /\ pc = "idle"
    /\ response # NoResponse
    /\ request' = NoRequest
    /\ response' = NoResponse
    /\ UNCHANGED <<questions, categories, next_id, pc, category_questions,
                   random_id, session>>

(***************************************************************************)
(* Specifications.                                                         *)
(***************************************************************************)
InitHandlers ==
    /\ request = NoRequest
    /\ response = NoResponse
    /\ pc = "idle"
    /\ category_questions = <<>>
    /\ random_id = 0

\* the whole application, over every store of up to MaxSeed questions
Init ==
    /\ \E n \in 0..MaxSeed : questions = SeedStore(n) /\ next_id = n + 1
    /\ categories = SeedCategories
    /\ session = NoSession
    /\ InitHandlers

Next ==
    \/ get_categories
    \/ get_questions
    \/ delete_question
    \/ post_question
    \/ get_questions_by_category
    \/ generate_quiz
    \/ generate_quiz_resample
    \/ generate_quiz_return
    \/ Receive

Spec == Init /\ [][Next]_vars

\* one quiz session of one caller, over an unchanged store
InitSession ==
    /\ \E n \in 0..MaxPool : questions = SeedStore(n) /\ next_id = n + 1
    /\ categories = SeedCategories
    /\ \E c \in QuizCategories : session = [NoSession EXCEPT !.quiz_category = c]
    /\ InitHandlers

NextSession ==
    \/ SessionAdvance
    \/ SessionReceive
    \/ generate_quiz_resample
    \/ generate_quiz_return

SpecSession == InitSession /\ [][NextSession]_vars

\* the listing of a store of up to MaxListed questions
InitListing ==
    /\ \E n \in 0..MaxListed : questions = SeedStore(n) /\ next_id = n + 1
    /\ categories = SeedCategories
    /\ session = NoSession
    /\ InitHandlers

NextListing ==
    \/ get_questions
    \/ Receive

SpecListing == InitListing /\ [][NextListing]_vars

\* paginate_questions alone, applied to every page of every list of up to
\* MaxListed questions, in the store's order or reversed
Reverse(s) == [i \in 1..Len(s) |-> s[Len(s) + 1 - i]]

paginate ==
    /\ \E args \in {a \in PageArgs : a.page >= 1} :
         /\ request' = [method |-> "call", path |-> "paginate_questions",
                        args |-> args]
         /\ response' = [status |-> 0, kind |-> "page",
                         questions |-> paginate_questions(request', questions)]
    /\ UNCHANGED <<questions, categories, next_id, pc, category_questions,
                   random_id, session>>

InitPaginate ==
    /\ \E n \in 0..MaxListed :
         /\ questions \in {SeedStore(n), Reverse(SeedStore(n))}
         /\ next_id = n + 1
    /\ categories = SeedCategories
    /\ session = NoSession
    /\ InitHandlers

NextPaginate == paginate

SpecPaginate == InitPaginate /\ [][NextPaginate]_vars

(***************************************************************************)
(* Properties.                                                             *)
(***************************************************************************)
IsQuizRequest == request.method = "POST" /\ request.path = "/quizzes"

IsGetQuestions == request.method = "GET" /\ request.path = "/questions"

IsPostQuestions == request.method = "POST" /\ request.path = "/questions"

Answered == pc = "idle" /\ response # NoResponse

\* C1: a question served by POST /quizzes has an id that is not among the
\* previous_questions of the request
C1_ServedNotPrevious ==
    (IsQuizRequest /\ Answered /\ response.kind = "quiz") =>
        response.current_question.id
            \notin Range(request.body.previous_questions)

\* a question is served although the pool holds a question served before
C1_Witness ==
    /\ IsQuizRequest /\ Answered /\ response.kind = "quiz"
    /\ \E q \in Range(QuizPool(questions, request.body)) :
         q.id \in Range(request.body.previous_questions)

\* C2: when previous_questions is as long as the pool, the empty pool with
\* the empty history included, POST /quizzes answers the empty placeholder
C2_ExhaustedIsPlaceholder ==
    (/\ IsQuizRequest /\ response # NoResponse
     /\ Len(QuizPool(questions, request.body))
            = Len(request.body.previous_questions)) =>
        response = QuizPlaceholder

\* C3: whenever generate_quiz is in its loop, the pool holds a question
\* whose id is not in previous_questions, so a fair draw ends the loop
C3_LoopHasUnserved ==
    pc = "while" =>
        \E i \in 1..Len(category_questions) :
            category_questions[i].id
                \notin Range(request.body.previous_questions)

\* C4: in a session over an unchanged store every answer is a success; it is
\* a pool question not served before while one remains, and the placeholder
\* exactly when every pool question was served; no id is served twice
C4_SessionFlow ==
    LET pool == QuizPool(questions, [previous_questions |-> <<>>,
                                     quiz_category |-> session.quiz_category])
        pool_ids == {pool[i].id : i \in 1..Len(pool)}
        served == session.previous_questions
    IN  /\ \A i, j \in 1..Len(served) : served[i] = served[j] => i = j
        /\ Range(served) \subseteq pool_ids
        /\ (session.awaiting /\ Answered) =>
              /\ response.status = 200
              /\ response.kind \in {"quiz", "quiz_end"}
              /\ response.kind = "quiz_end" <=> pool_ids \subseteq Range(served)
              /\ response.kind = "quiz" =>
                    response.current_question.id \in pool_ids \ Range(served)

\* the pool C5 states: every question for "click", else the questions whose
\* category is quiz_category.id + 1
C5_Pool(body) ==
    SelectSeq(questions, LAMBDA q :
        \/ body.quiz_category.type = "click"
        \/ q.category = Int_(body.quiz_category.id) + 1)

\* C5: the pool of POST /quizzes is every question when quiz_category.type
\* is "click" and else the questions of category quiz_category.id + 1; a
\* served question is one of the pool, and the placeholder is answered
\* exactly when previous_questions is as long as that pool
C5_PoolSelection ==
    IsQuizRequest =>
        LET pool == C5_Pool(request.body)
            previous == request.body.previous_questions
        IN  /\ pc = "while" => category_questions = pool
            /\ (Answered /\ response.kind = "quiz") =>
                  /\ \E i \in 1..Len(pool) :
                       /\ pool[i].id = response.current_question.id
                       /\ pool[i].question = response.current_question.question
                       /\ pool[i].answer = response.current_question.answer
                  /\ Len(pool) # Len(previous)
            /\ (Answered /\ response.kind = "quiz_end") =>
                  Len(pool) = Len(previous)

\* a question of category 2 is served for quiz_category.id "1" from a store
\* that also holds a question of category 1
C5_Witness ==
    /\ IsQuizRequest /\ Answered /\ response.kind = "quiz"
    /\ request.body.quiz_category = [type |-> "Science", id |-> <<"1">>]
    /\ \E q \in Range(questions) :
         q.id = response.current_question.id /\ q.category = 2
    /\ \E q \in Range(questions) : q.category = 1

\* the pages 1..n of the list, concatenated
RECURSIVE C6_Pages(_, _)
C6_Pages(selection, n) ==
    IF n = 0 THEN <<>>
    ELSE C6_Pages(selection, n - 1)
            \o paginate_questions([args |-> [has_page |-> TRUE, page |-> n]],
                                  selection)

\* C6: for a page >= 1, paginate_questions returns the items from index
\* (page-1)*10 on, at most 10 of them, in their order, none when the start is
\* past the end; the pages in order make up the list
C6_Pagination ==
    (request.method = "call" /\ response.kind = "page") =>
        LET page == PageArg(request)
            items == [i \in 1..Len(questions) |-> Format(questions[i])]
            start == (page - 1) * 10
            result == response.questions
        IN  /\ Len(result) <= 10
            /\ Len(result) = Max(0, Min(10, Len(items) - start))
            /\ \A i \in 1..Len(result) : result[i] = items[start + i]
            /\ start >= Len(items) => result = <<>>
            /\ \A n \in 0..MaxPage :
                  n * 10 >= Len(items) => C6_Pages(questions, n) = items

\* the second page of a list of more than 20 items is returned, full
C6_Witness ==
    /\ request.method = "call" /\ response.kind = "page"
    /\ PageArg(request) = 2
    /\ Len(questions) > 20
    /\ Len(response.questions) = 10

\* C7: GET /questions?page=N is 404 when N is past the last page of the
\* store's questions; for N from 1 to the last page and no body it is a
\* success with the N-th page and the store's count
C7_PageRange ==
    (IsGetQuestions /\ Answered) =>
        LET N == PageArg(request)
            total == Len(questions)
            start == (N - 1) * 10
        IN  /\ start >= total => response = Abort(404)
            /\ (N >= 1 /\ start < total /\ ~request.body.present) =>
                  /\ response.status = 200
                  /\ response.kind = "questions"
                  /\ response.total_questions = total
                  /\ response.questions =
                        [i \in 1..Min(10, total - start) |->
                            Format(questions[start + i])]

\* page 2 of a store of 11 questions is served
C7_Witness ==
    /\ IsGetQuestions /\ Answered
    /\ PageArg(request) = 2
    /\ Len(questions) = 11
    /\ response.kind = "questions"
    /\ Len(response.questions) = 1

\* C8: a GET /questions that carries a JSON body is answered 400, whatever
\* the store, the page and the body
C8_BodyIsBadRequest ==
    (IsGetQuestions /\ Answered /\ request.body.present) =>
        response = Abort(400)

\* whether the text of q, lowercased, contains the lowercased term
C9_Matches(q, term) == Contains(Lower(q.question), Lower(term))

\* C9: a search with a non-null term returns the questions whose lowercased
\* text contains the lowercased term, in the store's order, with their
\* count, and leaves the store unchanged
C9_Search ==
    /\ [] ((IsPostQuestions /\ Answered /\ IsSearch(request.json)) =>
            LET term == request.json.body.searchTerm.str
                hits == {i \in 1..Len(questions) : C9_Matches(questions[i], term)}
                nth(k) == CHOOSE i \in hits :
                              Cardinality({j \in hits : j < i}) = k - 1
            IN  /\ response.status = 200
                /\ response.kind = "search"
                /\ Len(response.questions) = Cardinality(hits)
                /\ \A k \in 1..Len(response.questions) :
                      response.questions[k] = Format(questions[nth(k)])
                /\ response.total_questions = Len(response.questions)
                /\ term = <<>> => Len(response.questions) = Len(questions))
    /\ [][(response = NoResponse /\ response' # NoResponse
           /\ request'.method = "POST" /\ request'.path = "/questions"
           /\ IsSearch(request'.json)) =>
             (questions' = questions /\ next_id' = next_id)]_vars

\* the term "q1" finds "Q1?" alone in a store of two questions or more
C9_Witness ==
    /\ IsPostQuestions /\ Answered /\ IsSearch(request.json)
    /\ request.json.body.searchTerm.str = <<"q", "1">>
    /\ Len(questions) >= 2
    /\ Len(response.questions) = 1
    /\ response.questions[1].question = Q1

\* C10: POST /questions with searchTerm: null is answered 400, a create
\* with an empty question or answer is answered 422, and neither changes
\* the store
C10_RejectedPost ==
    /\ [] ((IsPostQuestions /\ Answered) =>
            LET b == request.json
            IN  /\ ("searchTerm" \in b.keys /\ b.body.searchTerm.null) =>
                      response = Abort(400)
                /\ (/\ "searchTerm" \notin b.keys
                    /\ CreateKeys \subseteq b.keys
                    /\ (b.body.question = <<>> \/ b.body.answer = <<>>)) =>
                      response = Abort(422))
    /\ [][(response = NoResponse /\ response' \in {Abort(400), Abort(422)}
           /\ request'.method = "POST" /\ request'.path = "/questions") =>
             (questions' = questions /\ next_id' = next_id)]_vars

\* a create with an empty question and an answer is answered 422
C10_Witness ==
    /\ IsPostQuestions /\ Answered
    /\ "searchTerm" \notin request.json.keys
    /\ CreateKeys \subseteq request.json.keys
    /\ request.json.body.question = <<>>
    /\ request.json.body.answer = A1
    /\ response = Abort(422)

IsCreate(b) ==
    /\ "searchTerm" \notin b.keys
    /\ CreateKeys \subseteq b.keys
    /\ b.body.question # <<>>
    /\ b.body.answer # <<>>

\* C11: a create with a question, an answer and a category id that matches
\* no Category record inserts the question and is answered with the
\* success new-entry body
C11_CreateWithoutCategory ==
    (/\ IsPostQuestions /\ Answered
     /\ IsCreate(request.json)
     /\ \A i \in 1..Len(categories) :
          categories[i].id # request.json.body.category) =>
        /\ response.status = 200
        /\ response.kind = "new_entry"
        /\ Len(questions) >= 1
        /\ questions[Len(questions)].id = next_id - 1
        /\ questions[Len(questions)].question = request.json.body.question
        /\ questions[Len(questions)].category = request.json.body.category

C12_Ids(qs) == {qs[i].id : i \in 1..Len(qs)}

IsDelete(req) == req.method = "DELETE" /\ req.path = "/questions"

\* whether a listing, a search or a quiz pool over the store holds the id
C12_Appears(store, id) ==
    \/ \E a \in PageArgs :
         id \in C12_Ids(paginate_questions([args |-> a], store))
    \/ \E t \in SearchTerms : id \in C12_Ids(Search(store, t).questions)
    \/ \E c \in QuizCategories :
         id \in C12_Ids(QuizPool(store, [previous_questions |-> <<>>,
                                         quiz_category |-> c]))

\* C12: DELETE /questions/{id} of a stored id removes that question alone,
\* leaves the other questions and the categories, and answers "question
\* deleted"; of an id not stored it answers 404 and changes nothing. A
\* deleted id stays out of the store, so a second delete of it is 404, and
\* out of every listing, search result and quiz pool
C12_Delete ==
    /\ [][(response = NoResponse /\ response' # NoResponse /\ IsDelete(request')) =>
            LET id == Int_(request'.question_id)
                n == Len(questions)
            IN  /\ categories' = categories
                /\ IF id \in C12_Ids(questions)
                   THEN /\ response' = [status |-> 200, kind |-> "deleted",
                                        success |-> TRUE,
                                        message |-> "question deleted"]
                        /\ \E k \in 1..n :
                             /\ questions[k].id = id
                             /\ questions' = SubSeq(questions, 1, k - 1)
                                               \o SubSeq(questions, k + 1, n)
                        /\ id \notin C12_Ids(questions')
                        /\ ~C12_Appears(questions', id)
                   ELSE /\ response' = Abort(404)
                        /\ questions' = questions]_vars
    /\ [][\A id \in 1..(next_id - 1) :
            id \notin C12_Ids(questions) => id \notin C12_Ids(questions')]_vars
    /\ [] (/\ \A i \in 1..Len(questions) : questions[i].id < next_id
           /\ (Answered /\ response.kind \in {"questions", "search"}) =>
                 C12_Ids(response.questions) \subseteq C12_Ids(questions)
           /\ (Answered /\ response.kind = "quiz") =>
                 response.current_question.id \in C12_Ids(questions)
           /\ pc = "while" =>
                 C12_Ids(category_questions) \subseteq C12_Ids(questions))

\* a delete of an id the store assigned and holds no more is answered 404,
\* with another question still stored
C12_Witness ==
    /\ IsDelete(request) /\ Answered
    /\ response = Abort(404)
    /\ Int_(request.question_id) < next_id
    /\ questions # <<>>

====
